---- MODULE Spec2Model ----
(***************************************************************************)
(* A model of src/datadog.py: the budget tracker's BudgetCategory and      *)
(* BudgetManager classes and the menu loop of main().                      *)
(*                                                                         *)
(* Text typed at a prompt is a sequence of one-character strings, so that  *)
(* str.strip(), str.lower() and float() are computed character by          *)
(* character.  A Python float is a record [nan, v]: either NaN or the      *)
(* integer v.  Every number text the model feeds in denotes an integer or  *)
(* NaN, and income * (percentage / 100) is only applied where the product  *)
(* is a whole number, so that integer arithmetic gives the float result.   *)
(* Infinities, fractions, negative expense amounts and NaN expense amounts *)
(* are not among the inputs.                                               *)
(***************************************************************************)
EXTENDS Integers, Sequences, FiniteSets

\* ------------------------------------------------------------- bounds

\* |spent| is kept within MaxSpent: an expense that would leave the range
\* is not offered to the model.
MaxSpent == 2

\* -------------------------------------------------------------- inputs

\* What may be typed for a category name
NameTexts == { <<" ">>, <<"f","d">>, <<"F","d"," ">>, <<"r","t">> }
\* for a limit
LimitTexts == { <<"x">>, <<"n","a","n">>, <<"-","1">>, <<"0">> }
\* for an income and a percentage, in pairs: a limit of 1, a percentage
\* that is NaN, below 0, above 100 and no number, an income that is
\* negative and no number
DerivedTexts ==
  { <<"2">> } \X { <<"5","0">>, <<"n","a","n">>, <<"-","5","0">>, <<"1","5","0">>, <<"x">> }
  \cup { <<"-","2">>, <<"x">> } \X { <<"5","0">> }
\* for an expense amount
AmountTexts == { <<"x">>, <<"1">>, <<"2">> }
\* at a yes/no prompt
AnswerTexts == { <<" ","Y","E","S">>, <<"n","o">>, <<"o","k">> }
\* at add_category's prompt, where every answer but yes is the same branch
HelpTexts == { <<" ","Y","E","S">>, <<"n","o">> }

\* every text typed, and the empty text passed for a prompt never raised
TypedTexts ==
  NameTexts \cup LimitTexts \cup AmountTexts \cup AnswerTexts \cup HelpTexts
  \cup {d[1] : d \in DerivedTexts} \cup {d[2] : d \in DerivedTexts} \cup { <<>> }

\* --------------------------------------------------------------- text

Range(s) == {s[i] : i \in 1..Len(s)}

UpperCase == <<"A","B","C","D","E","F","G","H","I","J","K","L","M",
               "N","O","P","Q","R","S","T","U","V","W","X","Y","Z">>
LowerCase == <<"a","b","c","d","e","f","g","h","i","j","k","l","m",
               "n","o","p","q","r","s","t","u","v","w","x","y","z">>

\* str.lower() on one character
lower_char(c) ==
  IF \E i \in 1..Len(UpperCase) : UpperCase[i] = c
  THEN LowerCase[CHOOSE i \in 1..Len(UpperCase) : UpperCase[i] = c]
  ELSE c

lower_each(s) == [i \in 1..Len(s) |-> lower_char(s[i])]

IsSpace(c) == c = " "

RECURSIVE lstrip(_)
lstrip(s) ==
  IF s # <<>> /\ IsSpace(Head(s)) THEN lstrip(Tail(s)) ELSE s

RECURSIVE rstrip(_)
rstrip(s) ==
  IF s # <<>> /\ IsSpace(s[Len(s)]) THEN rstrip(SubSeq(s, 1, Len(s) - 1)) ELSE s

strip_ends(s) == rstrip(lstrip(s))

\* strip_ends on the texts typed, and lower_each on them and on what
\* strip_ends makes of them, computed once
StripMemo == [t \in TypedTexts |-> strip_ends(t)]
StrippedTexts == TypedTexts \cup {StripMemo[t] : t \in TypedTexts}
LowerMemo == [t \in StrippedTexts |-> lower_each(t)]

\* str.strip(), looked up where it has been computed
strip(s) == IF s \in TypedTexts THEN StripMemo[s] ELSE strip_ends(s)

\* str.lower(), looked up where it has been computed
lower(s) == IF s \in StrippedTexts THEN LowerMemo[s] ELSE lower_each(s)

\* ------------------------------------------------------------- floats

NaN == [nan |-> TRUE, v |-> 0]
Num(i) == [nan |-> FALSE, v |-> i]

\* float comparisons: every comparison with NaN is False
FLt(a, b) == ~a.nan /\ ~b.nan /\ a.v < b.v
FGt(a, b) == ~a.nan /\ ~b.nan /\ a.v > b.v
FLe(a, b) == ~a.nan /\ ~b.nan /\ a.v <= b.v
FGe(a, b) == ~a.nan /\ ~b.nan /\ a.v >= b.v

\* float arithmetic: NaN propagates
FAdd(a, b) == IF a.nan \/ b.nan THEN NaN ELSE Num(a.v + b.v)
FSub(a, b) == IF a.nan \/ b.nan THEN NaN ELSE Num(a.v - b.v)

Digits == <<"0","1","2","3","4","5","6","7","8","9">>
IsDigit(c) == \E i \in 1..Len(Digits) : Digits[i] = c
DigitVal(c) == (CHOOSE i \in 1..Len(Digits) : Digits[i] = c) - 1

RECURSIVE DigitsVal(_)
DigitsVal(s) ==
  IF s = <<>> THEN 0
  ELSE 10 * DigitsVal(SubSeq(s, 1, Len(s) - 1)) + DigitVal(s[Len(s)])

RECURSIVE NatText(_)
NatText(n) ==
  IF n < 10 THEN <<Digits[n + 1]>>
  ELSE NatText(n \div 10) \o <<Digits[(n % 10) + 1]>>

\* the index of the first "." of s, or Len(s) + 1
DotAt(s) ==
  IF \E i \in 1..Len(s) : s[i] = "."
  THEN CHOOSE i \in 1..Len(s) : s[i] = "." /\ \A j \in 1..(i - 1) : s[j] # "."
  ELSE Len(s) + 1

\* an unsigned decimal whose fraction, if any, is all zeros
UnsignedOk(s) ==
  LET d == DotAt(s)
      ip == SubSeq(s, 1, d - 1)
      fp == SubSeq(s, d + 1, Len(s))
  IN /\ ip # <<>>
     /\ \A c \in Range(ip) : IsDigit(c)
     /\ (d <= Len(s) => fp # <<>> /\ \A c \in Range(fp) : c = "0")

UnsignedVal(s) == DigitsVal(SubSeq(s, 1, DotAt(s) - 1))

\* float(text): [ok, val]; ok = FALSE is ValueError
float_parse(text) ==
  LET t == strip(text)
      signed == t # <<>> /\ Head(t) \in {"-", "+"}
      body == IF signed THEN Tail(t) ELSE t
      neg == signed /\ Head(t) = "-"
  IN IF lower(body) = <<"n","a","n">> THEN [ok |-> TRUE, val |-> NaN]
     ELSE IF UnsignedOk(body)
          THEN [ok |-> TRUE,
                val |-> Num(IF neg THEN 0 - UnsignedVal(body) ELSE UnsignedVal(body))]
          ELSE [ok |-> FALSE, val |-> NaN]

\* float_parse on the texts typed, computed once
FloatMemo == [t \in TypedTexts |-> float_parse(t)]

\* float(text), looked up where it has been computed
float(text) == IF text \in TypedTexts THEN FloatMemo[text] ELSE float_parse(text)

\* income * (percentage / 100)
DerivedLimit(income, percentage) ==
  IF income.nan \/ percentage.nan THEN NaN
  ELSE Num((income.v * percentage.v) \div 100)

\* --------------------------------------------------------------- dict

\* A Python dict (insertion-ordered): a sequence of entries [k, v] with
\* distinct keys.
EmptyDict == <<>>
Has(d, key) == \E i \in 1..Len(d) : d[i].k = key
Get(d, key) == d[CHOOSE i \in 1..Len(d) : d[i].k = key].v
Put(d, key, val) ==
  IF Has(d, key)
  THEN [i \in 1..Len(d) |-> IF d[i].k = key THEN [k |-> key, v |-> val] ELSE d[i]]
  ELSE Append(d, [k |-> key, v |-> val])
Del(d, key) == SelectSeq(d, LAMBDA e : e.k # key)
Keys(d) == {d[i].k : i \in 1..Len(d)}

\* ----------------------------------------------------- BudgetCategory

\* BudgetCategory.__init__
BudgetCategory(name, limit) == [name |-> name, limit |-> limit, spent |-> Num(0)]

Yes == <<"y","e","s">>
No == <<"n","o">>

\* add_expense that proceeds on every answer but 'no'
BudgetCategory_add_expense_noelif(self, amount, proceedText) ==
  IF FGt(FAdd(self.spent, amount), self.limit)
  THEN LET proceed == lower(strip(proceedText)) IN
       IF proceed # No
       THEN [cat |-> [self EXCEPT !.spent = FAdd(self.spent, amount)],
             msgs |-> <<"warn_exceeds", "prompt_proceed">>, answer |-> proceedText]
       ELSE [cat |-> self, msgs |-> <<"warn_exceeds", "prompt_proceed", "not_added">>,
             answer |-> proceedText]
  ELSE [cat |-> [self EXCEPT !.spent = FAdd(self.spent, amount)],
        msgs |-> <<>>, answer |-> <<>>]

\* add_expense that assigns the amount on a confirmed overage
BudgetCategory_add_expense_assign(self, amount, proceedText) ==
  IF FGt(FAdd(self.spent, amount), self.limit)
  THEN LET proceed == lower(strip(proceedText)) IN
       IF proceed = Yes
       THEN [cat |-> [self EXCEPT !.spent = amount],
             msgs |-> <<"warn_exceeds", "prompt_proceed">>, answer |-> proceedText]
       ELSE IF proceed = No
       THEN [cat |-> self, msgs |-> <<"warn_exceeds", "prompt_proceed", "not_added">>,
             answer |-> proceedText]
       ELSE [cat |-> self, msgs |-> <<"warn_exceeds", "prompt_proceed">>,
             answer |-> proceedText]
  ELSE [cat |-> [self EXCEPT !.spent = FAdd(self.spent, amount)],
        msgs |-> <<>>, answer |-> <<>>]

\* add_expense that compares with >= in place of >
BudgetCategory_add_expense_ge(self, amount, proceedText) ==
  IF FGe(FAdd(self.spent, amount), self.limit)
  THEN LET proceed == lower(strip(proceedText)) IN
       IF proceed = Yes
       THEN [cat |-> [self EXCEPT !.spent = FAdd(self.spent, amount)],
             msgs |-> <<"warn_exceeds", "prompt_proceed">>, answer |-> proceedText]
       ELSE IF proceed = No
       THEN [cat |-> self, msgs |-> <<"warn_exceeds", "prompt_proceed", "not_added">>,
             answer |-> proceedText]
       ELSE [cat |-> self, msgs |-> <<"warn_exceeds", "prompt_proceed">>,
             answer |-> proceedText]
  ELSE [cat |-> [self EXCEPT !.spent = FAdd(self.spent, amount)],
        msgs |-> <<>>, answer |-> <<>>]

\* BudgetCategory.add_expense with the text typed at its prompt, should it
\* ask: the category afterwards, what was printed and the answer typed.
BudgetCategory_add_expense(self, amount, proceedText) ==
  IF FGt(FAdd(self.spent, amount), self.limit)
  THEN LET proceed == lower(strip(proceedText)) IN
       IF proceed = Yes
       THEN [cat |-> [self EXCEPT !.spent = FAdd(self.spent, amount)],
             msgs |-> <<"warn_exceeds", "prompt_proceed">>, answer |-> proceedText]
       ELSE IF proceed = No
       THEN [cat |-> self, msgs |-> <<"warn_exceeds", "prompt_proceed", "not_added">>,
             answer |-> proceedText]
       ELSE [cat |-> self, msgs |-> <<"warn_exceeds", "prompt_proceed">>,
             answer |-> proceedText]
  ELSE [cat |-> [self EXCEPT !.spent = FAdd(self.spent, amount)],
        msgs |-> <<>>, answer |-> <<>>]

\* BudgetCategory.remaining: the value returned and whether it warned
remaining(self) ==
  [value |-> FSub(self.limit, self.spent), warned |-> FGt(self.spent, self.limit)]

\* BudgetCategory.to_dict
to_dict(self) == [name |-> self.name, limit |-> self.limit, spent |-> self.spent]

\* BudgetCategory.from_dict raises KeyError without these keys
from_dict_ok(data) == {"name", "limit", "spent"} \subseteq DOMAIN data

\* from_dict that leaves spent as the constructor set it
from_dict_nospent(data) == BudgetCategory(data["name"], data["limit"])

\* BudgetCategory.from_dict
from_dict(data) ==
  LET category == BudgetCategory(data["name"], data["limit"])
  IN [category EXCEPT !.spent = data["spent"]]

\* ------------------------------------------------------ BudgetManager

\* the help branch of add_category: income and percentage are read, then
\* the percentage is checked, then the income
add_category_help(cats, name, helpText, incomeText, percentText) ==
  LET income == float(strip(incomeText))
      percent == float(strip(percentText))
      asked == <<"prompt_help", "prompt_income", "prompt_percent">>
  IN IF ~percent.ok \/ FLt(percent.val, Num(0)) \/ FGt(percent.val, Num(100))
     THEN [cats |-> cats, msgs |-> asked \o <<"invalid_percentage">>, answer |-> helpText]
     ELSE IF ~income.ok \/ FLt(income.val, Num(0))
     THEN [cats |-> cats, msgs |-> asked \o <<"invalid_income">>, answer |-> helpText]
     ELSE [cats |-> Put(cats, name,
                        BudgetCategory(name, DerivedLimit(income.val, percent.val))),
           msgs |-> asked \o <<"added_category">>, answer |-> helpText]

\* the branch of add_category that takes the limit as given
add_category_direct(cats, name, limit, helpText) ==
  IF FLt(limit, Num(0))
  THEN [cats |-> cats, msgs |-> <<"prompt_help", "negative_limit">>,
        answer |-> helpText]
  ELSE [cats |-> Put(cats, name, BudgetCategory(name, limit)),
        msgs |-> <<"prompt_help", "added_category">>, answer |-> helpText]

\* add_category that strips the name and does not lowercase it
BudgetManager_add_category_nolower(cats, rawName, limit, helpText, incomeText, percentText) ==
  LET name == strip(rawName) IN
  IF Has(cats, name) \/ name = <<>>
  THEN [cats |-> cats, msgs |-> <<"already_exists">>, answer |-> <<>>]
  ELSE IF lower(strip(helpText)) = Yes
       THEN add_category_help(cats, name, helpText, incomeText, percentText)
       ELSE add_category_direct(cats, name, limit, helpText)

\* BudgetManager.add_category with the texts typed at its prompts, should
\* it ask: the dict afterwards, what was printed and what was answered to
\* the help prompt.
BudgetManager_add_category(cats, rawName, limit, helpText, incomeText, percentText) ==
  LET name == lower(strip(rawName)) IN
  IF Has(cats, name) \/ name = <<>>
  THEN [cats |-> cats, msgs |-> <<"already_exists">>, answer |-> <<>>]
  ELSE IF lower(strip(helpText)) = Yes
       THEN add_category_help(cats, name, helpText, incomeText, percentText)
       ELSE add_category_direct(cats, name, limit, helpText)

\* BudgetManager.add_expense
BudgetManager_add_expense(cats, name, amount, proceedText) ==
  IF Has(cats, name)
  THEN LET r == BudgetCategory_add_expense(Get(cats, name), amount, proceedText)
       IN [cats |-> Put(cats, name, r.cat), msgs |-> r.msgs \o <<"added_expense">>,
           answer |-> r.answer]
  ELSE [cats |-> cats, msgs |-> <<"no_such_category">>, answer |-> <<>>]

\* remove_category that deletes on every answer but 'no'
BudgetManager_remove_category_notno(cats, name, confirmText) ==
  IF Has(cats, name)
  THEN LET confirmation == lower(strip(confirmText)) IN
       IF confirmation = No
       THEN [cats |-> cats, msgs |-> <<"prompt_remove", "removal_cancelled">>,
             answer |-> confirmText]
       ELSE [cats |-> Del(cats, name), msgs |-> <<"prompt_remove", "removed">>,
             answer |-> confirmText]
  ELSE [cats |-> cats, msgs |-> <<"no_such_category">>, answer |-> <<>>]

\* BudgetManager.remove_category
BudgetManager_remove_category(cats, name, confirmText) ==
  IF Has(cats, name)
  THEN LET confirmation == lower(strip(confirmText)) IN
       IF confirmation # Yes
       THEN [cats |-> cats, msgs |-> <<"prompt_remove", "removal_cancelled">>,
             answer |-> confirmText]
       ELSE [cats |-> Del(cats, name), msgs |-> <<"prompt_remove", "removed">>,
             answer |-> confirmText]
  ELSE [cats |-> cats, msgs |-> <<"no_such_category">>, answer |-> <<>>]

\* sum(cat.spent for cat in self.categories.values())
RECURSIVE SumSpent(_)
SumSpent(cats) ==
  IF cats = <<>> THEN Num(0)
  ELSE FAdd(SumSpent(SubSeq(cats, 1, Len(cats) - 1)), cats[Len(cats)].v.spent)

\* BudgetManager.show_summary: one row per category in dict order;
\* total_spent is assigned in the loop body only, so it is unbound when
\* the loop never runs and the final print raises UnboundLocalError.
show_summary(cats) ==
  [rows |-> [i \in 1..Len(cats) |->
               [name |-> cats[i].v.name,
                spent |-> cats[i].v.spent,
                limit |-> cats[i].v.limit,
                remaining |-> remaining(cats[i].v).value,
                warned |-> remaining(cats[i].v).warned]],
   bound |-> Len(cats) > 0,
   total |-> SumSpent(cats)]

\* --------------------------------------------------------------- json

\* The data file: absent, or a JSON text.  A JSON text is kept as its
\* structure: unparsable text, an array, or an object whose members are
\* objects with string and number tokens (character sequences).
NoFile == [exists |-> FALSE, shape |-> "none", members |-> <<>>]

\* float.__repr__ as json.dump writes it: NaN, or digits followed by .0
float_repr(x) ==
  IF x.nan THEN <<"N","a","N">>
  ELSE (IF x.v < 0 THEN <<"-">> ELSE <<>>)
       \o NatText(IF x.v < 0 THEN 0 - x.v ELSE x.v) \o <<".","0">>

\* the JSON decoder on a number token
json_number(t) == IF t = <<"N","a","N">> THEN NaN ELSE float(t).val

\* json.dump of {k: v.to_dict() for k, v in self.categories.items()}
json_dump(d) ==
  [exists |-> TRUE, shape |-> "object",
   members |-> [i \in 1..Len(d) |->
                  [k |-> d[i].k,
                   v |-> [name |-> to_dict(d[i].v).name,
                          limit |-> float_repr(to_dict(d[i].v).limit),
                          spent |-> float_repr(to_dict(d[i].v).spent)]]]]

\* one member object decoded to a Python dict
json_object(m) ==
  [f \in DOMAIN m |-> IF f = "name" THEN m[f] ELSE json_number(m[f])]

\* json.load of an object: a dict in member order, a repeated key keeping
\* its first place and its last value
RECURSIVE json_load(_)
json_load(members) ==
  IF members = <<>> THEN EmptyDict
  ELSE LET last == members[Len(members)]
       IN Put(json_load(SubSeq(members, 1, Len(members) - 1)),
              last.k, json_object(last.v))

\* BudgetManager.save_data: the file afterwards (a full overwrite)
save_data(cats) == json_dump(cats)

\* {k: BudgetCategory.from_dict(v) for k, v in data.items()}
load_comprehension(data) ==
  [i \in 1..Len(data) |-> [k |-> data[i].k, v |-> from_dict(data[i].v)]]

\* BudgetManager.load_data: the dict afterwards, or the uncaught exception
load_data(f, cats) ==
  IF ~f.exists THEN [cats |-> cats, raised |-> "none"]
  ELSE IF f.shape = "invalid" THEN [cats |-> cats, raised |-> "JSONDecodeError"]
  ELSE IF f.shape # "object" THEN [cats |-> cats, raised |-> "AttributeError"]
  ELSE LET data == json_load(f.members) IN
       IF \E i \in 1..Len(data) : ~from_dict_ok(data[i].v)
       THEN [cats |-> cats, raised |-> "KeyError"]
       ELSE [cats |-> load_comprehension(data), raised |-> "none"]

\* --------------------------------------------------------------- files

\* The data file found at the start: none, text that is not JSON, an
\* array, a member without "spent", a member whose name is not its key,
\* and a file as save_data writes it
InitFiles ==
  { NoFile,
    [exists |-> TRUE, shape |-> "invalid", members |-> <<>>],
    [exists |-> TRUE, shape |-> "array", members |-> <<>>],
    [exists |-> TRUE, shape |-> "object",
     members |-> << [k |-> <<"f","d">>,
                     v |-> [name |-> <<"f","d">>, limit |-> <<"1",".","0">>]] >>],
    [exists |-> TRUE, shape |-> "object",
     members |-> << [k |-> <<"f","d">>,
                     v |-> [name |-> <<"F","d">>, limit |-> <<"1">>,
                            spent |-> <<"0">>]] >>],
    [exists |-> TRUE, shape |-> "object",
     members |-> << [k |-> <<"r","t">>,
                     v |-> [name |-> <<"r","t">>, limit |-> <<"1",".","0">>,
                            spent |-> <<"2",".","0">>]] >>] }

\* --------------------------------------------------------------- state

VARIABLES
  pc,          \* "start": BudgetManager() has set categories = {} and not yet
               \* loaded; "menu": main's loop awaits a choice; "crashed": an
               \* exception left main; "exited": the loop ended by break
  categories,  \* BudgetManager.categories
  file,        \* budget_data.json
  out          \* what the last step printed

vars == <<pc, categories, file, out>>

\* What a step leaves behind for an observer: the BudgetManager method
\* main called (op; "none" when it called none), the category name and the
\* expense amount it passed (name, amount), the lines printed (msgs), the
\* answer typed at the yes/no prompt the method raised (answer; empty when
\* it raised none) and, for the summary, its rows and total.
Said(op, name, amount, msgs, answer) ==
  [op |-> op, name |-> name, amount |-> amount, msgs |-> msgs, answer |-> answer,
   rows |-> <<>>, bound |-> FALSE, total |-> Num(0)]
Printed(op, msgs) == Said(op, <<>>, Num(0), msgs, <<>>)

InRange(cats) ==
  \A i \in 1..Len(cats) :
    cats[i].v.spent.nan \/ (cats[i].v.spent.v \in (0 - MaxSpent)..MaxSpent)

Init ==
  /\ pc = "start"
  /\ categories = EmptyDict
  /\ file \in InitFiles
  /\ out = Printed("none", <<>>)

\* main up to its loop: the welcome line and BudgetManager()
main_start ==
  /\ pc = "start"
  /\ LET r == load_data(file, categories) IN
     /\ categories' = r.cats
     /\ pc' = IF r.raised = "none" THEN "menu" ELSE "crashed"
     /\ out' = Printed("load_data",
                       IF r.raised = "none" THEN <<"welcome">>
                       ELSE <<"welcome", r.raised>>)
  /\ UNCHANGED file

\* choice "1"
main_add_category(nameText, limitText, helpText, incomeText, percentText) ==
  /\ pc = "menu"
  /\ LET name == strip(nameText)
         limit == float(limitText)
     IN IF ~limit.ok
        THEN /\ categories' = categories
             /\ out' = Printed("none", <<"invalid_number">>)
        ELSE LET r == BudgetManager_add_category(categories, name, limit.val,
                                                 helpText, incomeText, percentText)
             IN /\ categories' = r.cats
                /\ out' = Said("add_category", name, Num(0), r.msgs, r.answer)
  /\ UNCHANGED <<pc, file>>

\* choice "2"
main_remove_category(nameText, confirmText) ==
  /\ pc = "menu"
  /\ LET name == strip(nameText)
         r == BudgetManager_remove_category(categories, name, confirmText)
     IN /\ categories' = r.cats
        /\ out' = Said("remove_category", name, Num(0), r.msgs, r.answer)
  /\ UNCHANGED <<pc, file>>

\* choice "3"
main_add_expense(nameText, amountText, proceedText) ==
  /\ pc = "menu"
  /\ LET name == strip(nameText)
         amount == float(amountText)
     IN IF ~amount.ok
        THEN /\ categories' = categories
             /\ out' = Printed("none", <<"invalid_number">>)
        ELSE LET r == BudgetManager_add_expense(categories, name, amount.val, proceedText)
             IN /\ InRange(r.cats)
                /\ categories' = r.cats
                /\ out' = Said("add_expense", name, amount.val, r.msgs, r.answer)
  /\ UNCHANGED <<pc, file>>

\* choice "4"
main_show_summary ==
  /\ pc = "menu"
  /\ LET r == show_summary(categories) IN
     /\ out' = [op |-> "show_summary", name |-> <<>>, amount |-> Num(0),
                msgs |-> IF r.bound THEN <<"summary", "total">>
                         ELSE <<"summary", "UnboundLocalError">>,
                answer |-> <<>>,
                rows |-> r.rows, bound |-> r.bound, total |-> r.total]
     /\ pc' = IF r.bound THEN "menu" ELSE "crashed"
  /\ UNCHANGED <<categories, file>>

\* choice "5"
main_save_exit ==
  /\ pc = "menu"
  /\ file' = save_data(categories)
  /\ out' = Printed("save_data", <<"saved">>)
  /\ pc' = "exited"
  /\ UNCHANGED categories

\* any other choice
main_invalid_choice ==
  /\ pc = "menu"
  /\ out' = Printed("none", <<"invalid_choice">>)
  /\ UNCHANGED <<pc, categories, file>>

\* The program is started again after a save and exit: a new process
\* whose BudgetManager() loads what the last one saved.  In state "exited"
\* categories still shows the dict of the process that saved.  The new run
\* is not followed further: it is a run started on that file.
Rerun ==
  /\ pc = "exited"
  /\ LET r == load_data(file, EmptyDict) IN
     /\ categories' = r.cats
     /\ pc' = IF r.raised = "none" THEN "reloaded" ELSE "crashed"
     /\ out' = Printed("load_data",
                       IF r.raised = "none" THEN <<"welcome">>
                       ELSE <<"welcome", r.raised>>)
  /\ UNCHANGED file

\* Choice "1" with what is typed.  The income and the percentage are read
\* only after the answer yes, and the limit typed before is then replaced
\* by the derived one, so one limit text stands for all with that answer.
AddCategoryStep ==
  \E n \in NameTexts, h \in HelpTexts :
    IF lower(strip(h)) = Yes
    THEN \E d \in DerivedTexts : main_add_category(n, <<"0">>, h, d[1], d[2])
    ELSE \E l \in LimitTexts : main_add_category(n, l, h, <<>>, <<>>)

Next ==
  \/ main_start
  \/ AddCategoryStep
  \/ \E n \in NameTexts, c \in AnswerTexts : main_remove_category(n, c)
  \/ \E n \in NameTexts, a \in AmountTexts, r \in AnswerTexts : main_add_expense(n, a, r)
  \/ main_show_summary
  \/ main_save_exit
  \/ main_invalid_choice
  \/ Rerun

Spec == Init /\ [][Next]_vars

\* -------------------------------------------------------------- claims

Norm(text) == lower(strip(text))
Over(cats, key) ==
  Has(cats, key) /\ FGt(Get(cats, key).spent, Get(cats, key).limit)
\* every entry of cats but the one under key is in cats2, unchanged
OthersSame(cats, cats2, key) ==
  \A k \in Keys(cats) \ {key} : Has(cats2, k) /\ Get(cats2, k) = Get(cats, k)
Prompted(o, prompt) == \E i \in 1..Len(o.msgs) : o.msgs[i] = prompt
\* the step is main's call of the method op from the menu
Called(op) == pc = "menu" /\ out'.op = op

\* C1: a step of the menu loop leaves a category with spent > limit that
\* was not so before only when it is an overage expense on that category
\* whose prompt was answered yes; a ledger that starts empty therefore
\* never holds spent > limit without that answer.
C1_OverageOnlyWhenConfirmed ==
  [][pc = "menu" =>
       \A key \in Keys(categories') :
         (Over(categories', key) /\ ~Over(categories, key)) =>
           /\ out'.op = "add_expense"
           /\ out'.name = key
           /\ Has(categories, key)
           /\ FGt(FAdd(Get(categories, key).spent, out'.amount),
                  Get(categories, key).limit)
           /\ Prompted(out', "prompt_proceed")
              /\ Norm(out'.answer) = Yes]_vars

\* C1 witness: in a run that found no data file, an overage was confirmed
C1_Witness ==
  /\ pc = "menu"
  /\ ~file.exists
  /\ out.op = "add_expense"
  /\ Prompted(out, "prompt_proceed")
  /\ Over(categories, out.name)

\* C2: an expense with spent + amount > limit on an existing category asks,
\* adds exactly amount to spent when the answer is yes, and leaves spent as
\* it was on no and on every other answer.
C2_OverageFollowsAnswer ==
  [][(/\ Called("add_expense")
      /\ Has(categories, out'.name)
      /\ FGt(FAdd(Get(categories, out'.name).spent, out'.amount),
             Get(categories, out'.name).limit))
     => /\ Prompted(out', "prompt_proceed")
        /\ Has(categories', out'.name)
        /\ Get(categories', out'.name).spent =
             IF Norm(out'.answer) = Yes
             THEN Num(Get(categories, out'.name).spent.v + out'.amount.v)
             ELSE Get(categories, out'.name).spent]_vars

\* C2 witness: an overage prompt answered with neither yes nor no
C2_Witness ==
  /\ pc = "menu"
  /\ out.op = "add_expense"
  /\ Prompted(out, "prompt_proceed")
  /\ Norm(out.answer) \notin {Yes, No}
  /\ Has(categories, out.name)
  /\ FGt(FAdd(Get(categories, out.name).spent, out.amount),
         Get(categories, out.name).limit)

\* C3: an expense with spent + amount <= limit on an existing category
\* raises no prompt and adds exactly amount to that category's spent; its
\* name and limit stay.
C3_NonOverageAddsExactly ==
  [][(/\ Called("add_expense")
      /\ Has(categories, out'.name)
      /\ FLe(FAdd(Get(categories, out'.name).spent, out'.amount),
             Get(categories, out'.name).limit))
     => /\ ~Prompted(out', "prompt_proceed")
        /\ out'.answer = <<>>
        /\ Has(categories', out'.name)
        /\ Get(categories', out'.name).spent =
             Num(Get(categories, out'.name).spent.v + out'.amount.v)
        /\ Get(categories', out'.name).limit = Get(categories, out'.name).limit
        /\ Get(categories', out'.name).name = Get(categories, out'.name).name]_vars

\* C3 witness: an expense went in without a prompt and reached the limit
C3_Witness ==
  /\ pc = "menu"
  /\ out.op = "add_expense"
  /\ out.msgs = <<"added_expense">>
  /\ Has(categories, out.name)
  /\ Get(categories, out.name).spent = Get(categories, out.name).limit
  /\ FGt(Get(categories, out.name).spent, Num(0))

\* C4: the run started after a save and exit loads a dict equal to the one
\* saved: the same keys in the same order, each with the same name, limit
\* and spent, and nothing that had been removed.
C4_SaveLoadRoundTrip ==
  [][pc = "exited" => (pc' = "reloaded" /\ categories' = categories)]_vars

\* C4 witness: two categories reloaded, one overspent, one with a NaN limit
C4_Witness ==
  /\ pc = "reloaded"
  /\ Len(categories) = 2
  /\ \E key \in Keys(categories) : Over(categories, key)
  /\ \E key \in Keys(categories) : Get(categories, key).limit.nan

\* C5: after the summary the loop goes on, every category has its row of
\* name, spent, limit and limit - spent, and the total printed is the sum
\* of spent over all categories, also when there is no category.
C5_SummaryReports ==
  out.op = "show_summary" =>
    /\ pc = "menu"
    /\ out.bound
    /\ Len(out.rows) = Len(categories)
    /\ \A i \in 1..Len(categories) :
         /\ out.rows[i].name = categories[i].v.name
         /\ out.rows[i].spent = categories[i].v.spent
         /\ out.rows[i].limit = categories[i].v.limit
         /\ out.rows[i].remaining =
              (IF categories[i].v.limit.nan \/ categories[i].v.spent.nan THEN NaN
               ELSE Num(categories[i].v.limit.v - categories[i].v.spent.v))
    /\ out.total = SumSpent(categories)

\* C6: a step that reports a rejected input, a duplicate or unknown
\* category, or a data file that is not the expected mapping of complete
\* records leaves the dict as it was and returns to the menu.
ErrorLines ==
  {"invalid_number", "already_exists", "negative_limit", "invalid_percentage",
   "invalid_income", "no_such_category", "JSONDecodeError", "AttributeError",
   "KeyError"}
C6_ErrorsRecovered ==
  [][(Range(out'.msgs) \cap ErrorLines # {}) =>
       (pc' = "menu" /\ categories' = categories)]_vars

\* C7: add_category with a name that strips and lowercases to an existing
\* key, or to nothing, leaves the dict as it was.
C7_DuplicateOrBlankRejected ==
  [][(/\ Called("add_category")
      /\ (Has(categories, Norm(out'.name)) \/ Norm(out'.name) = <<>>))
     => (categories' = categories /\ out'.msgs = <<"already_exists">>)]_vars

\* C7 witness: a name in capitals was refused as a duplicate while the
\* category of that name held spending
C7_Witness ==
  /\ pc = "menu"
  /\ out.op = "add_category"
  /\ out.msgs = <<"already_exists">>
  /\ out.name # Norm(out.name)
  /\ Has(categories, Norm(out.name))
  /\ FGt(Get(categories, Norm(out.name)).spent, Num(0))

\* C8: a category that add_category has just created has limit >= 0 and
\* spent = 0.
C8_CreatedLimitValid ==
  (out.op = "add_category" /\ Prompted(out, "added_category")) =>
    /\ Has(categories, Norm(out.name))
    /\ FGe(Get(categories, Norm(out.name)).limit, Num(0))
    /\ Get(categories, Norm(out.name)).spent = Num(0)

\* C9: remove_category on an absent name changes nothing and says so; on
\* a present name it asks and deletes that entry alone, and only on the
\* answer yes; on any other answer the dict is as it was.
C9_RemoveOnlyOnConfirm ==
  [][Called("remove_category") =>
       IF ~Has(categories, out'.name)
       THEN categories' = categories /\ out'.msgs = <<"no_such_category">>
       ELSE /\ Prompted(out', "prompt_remove")
            /\ IF Norm(out'.answer) = Yes
               THEN /\ Keys(categories') = Keys(categories) \ {out'.name}
                    /\ Len(categories') = Len(categories) - 1
                    /\ OthersSame(categories, categories', out'.name)
               ELSE categories' = categories]_vars

\* C9 witness: one of two categories was removed, the other is still there
C9_Witness ==
  /\ pc = "menu"
  /\ out.op = "remove_category"
  /\ out.msgs = <<"prompt_remove", "removed">>
  /\ ~Has(categories, out.name)
  /\ Len(categories) = 1

\* C10: wherever the program holds a dict of categories, each key is the
\* name of its category, stripped and lowercased.
C10_KeyIsName ==
  pc \in {"menu", "exited", "reloaded"} =>
    \A i \in 1..Len(categories) :
      /\ categories[i].k = categories[i].v.name
      /\ categories[i].k = Norm(categories[i].k)

====
